---- MODULE Spec2Model ----
(***************************************************************************)
(* Model of dashboard.py: the Nordpool price dashboard for the Pimoroni    *)
(* Presto.  The model covers the startup sequence and the main loop:       *)
(* touch polling, the quiet-hours backlight state machine, the periodic    *)
(* fetch with its cached fallback, and the gating of the redraw.           *)
(*                                                                         *)
(* Time is the RTC in whole seconds, as time.time() returns it.  One       *)
(* action models one whole iteration of the `while True` loop, including   *)
(* the sleep that ends it; the work of an iteration is taken to finish     *)
(* within the second in which it started, so the clock advances by the     *)
(* sleeps only (10 s after a failed fetch, else up to the next minute).    *)
(***************************************************************************)
EXTENDS Integers, Sequences, FiniteSets, TLC

VARIABLES
    pc,               \* "boot": before line 336, "loop": inside while True, "exit": script ended
    clock,            \* the RTC, seconds (what time.time() / time.gmtime() read next)
    QUIET_START,      \* secrets.QUIET_START
    QUIET_END,        \* secrets.QUIET_END
    WAKE_DURATION,    \* secrets.WAKE_DURATION
    TIMEZONE_OFFSET,  \* secrets.TIMEZONE_OFFSET, in half hours (2 * the configured value)
    cached_data,      \* None or <<response>>
    last_fetch_time,
    screen_on,
    woke_at,          \* None or <<time>>
    backlight,        \* last value handed to presto.set_backlight (TRUE = 1.0)
    now_ticks,        \* time.time() as read by the last iteration
    quiet,            \* in_quiet_hours(now_h) of the last iteration
    touched,          \* touch.state of the last iteration
    fetch_result,     \* last iteration: "none" (not due), "ok" (returned), "raise"
    response,         \* last iteration: None or <<what fetch_nordpool returned>>
    redraw,           \* last iteration: TRUE when draw_dashboard was invoked
    drawn,            \* what the last iteration put on the display: "none", "dashboard" or "error"
    prev,             \* None or <<state the last iteration started from>>
    boot_time,        \* time.time() at line 349
    touched_at,       \* None or <<time of the latest quiet touch not followed by a non-quiet tick>>
    boot_run,         \* TRUE while every iteration since boot was quiet and untouched
    fn_args,          \* arguments of the last evaluation of a function on its own (None in the main loop)
    fn_result         \* its result (None in the main loop)

config == <<QUIET_START, QUIET_END, WAKE_DURATION, TIMEZONE_OFFSET>>
state  == <<cached_data, last_fetch_time, screen_on, woke_at, backlight>>
obs    == <<now_ticks, quiet, touched, fetch_result, response, redraw, drawn, prev>>
hist   == <<boot_time, touched_at, boot_run>>
fn     == <<fn_args, fn_result>>
vars   == <<pc, clock, config, state, obs, hist, fn>>

None == <<>>

REFRESH_SECS == 900
COOLDOWN_SECS == 10

(* ---- bounds of the exploration ---- *)
MaxMinutes == 16        \* ticks are taken while less than this many minutes passed since boot

(* Configurations explored: <<QUIET_START, QUIET_END, WAKE_DURATION, TIMEZONE_OFFSET (half hours)>> *)
Configs == { <<23, 7, 300, 4>>, <<23, 7, 0, 4>> }

(* RTC values at which the script is started (UTC seconds of day 0).       *)
(* With offset +2h: 75000 = 22:50 local, 17580 = 06:53 local.              *)
BootClocks == { 75000, 17580 }

(* ---- responses of the sensor endpoint ---- *)
RequiredFields == {"attributes", "current_price", "average", "min", "max", "raw_today"}
AllFields == RequiredFields \cup {"raw_tomorrow"}

Responses ==
    { [fields |-> AllFields, current_price |-> 5],
      [fields |-> AllFields, current_price |-> 20] }
    \cup { [fields |-> IF f = "attributes" THEN {} ELSE AllFields \ {f}, current_price |-> 5]
             : f \in RequiredFields }

(* variant of get_local_time_hm: the sum is not wrapped around midnight *)
get_local_time_hm_NoWrap(t) ==
    LET utc_minutes   == ((t \div 3600) % 24) * 60 + ((t \div 60) % 60)
        local_minutes == utc_minutes + TIMEZONE_OFFSET * 30
    IN  <<local_minutes \div 60, local_minutes % 60>>

(* ---- get_local_time_hm ---- *)
get_local_time_hm(t) ==
    LET utc_minutes   == ((t \div 3600) % 24) * 60 + ((t \div 60) % 60)
        local_minutes == (utc_minutes + TIMEZONE_OFFSET * 30) % (24 * 60)
    IN  <<local_minutes \div 60, local_minutes % 60>>

(* variant of in_quiet_hours: the window that wraps midnight is tested like a same-day window *)
in_quiet_hours_NoWrap(h) ==
    IF QUIET_START = QUIET_END THEN FALSE
    ELSE IF QUIET_START < QUIET_END THEN QUIET_START <= h /\ h < QUIET_END
    ELSE h >= QUIET_START /\ h < QUIET_END

(* ---- in_quiet_hours ---- *)
in_quiet_hours(h) ==
    IF QUIET_START = QUIET_END THEN FALSE
    ELSE IF QUIET_START < QUIET_END THEN QUIET_START <= h /\ h < QUIET_END
    ELSE h >= QUIET_START \/ h < QUIET_END

(* ---- draw_dashboard: TRUE when it returns, FALSE when it raises ---- *)
draw_dashboard(data) == RequiredFields \subseteq data.fields

(***************************************************************************)
(* draw_dashboard, the chart window (lines 174-203, 218-219, 290)          *)
(* A timestamp "YYYY-MM-DDTHH:MM:00+ZZ:ZZ" is <<day, hour, minute>>.       *)
(* Prices are whole numbers; chart_max is kept in tenths and bar_w in      *)
(* thousandths of a pixel.                                                 *)
(***************************************************************************)
CHART_SLOTS_PAST == 4
CHART_SLOTS_FUTURE == 20
W == 480
CX == 30
CW == W - CX - 10
bar_gap == 2

(* ---- parse_hm: the HH and MM of a timestamp, the rest is dropped ---- *)
parse_hm(ts) == <<ts[2], ts[3]>>

(* all_slots[a:b] of Python for 0 <= a: the end is clipped to the length *)
PySlice(seq, a, b) ==
    LET e == IF b < Len(seq) THEN b ELSE Len(seq)
    IN  IF a < e THEN SubSeq(seq, a + 1, e) ELSE <<>>

(* max(vals) of Python: raises ValueError on an empty sequence *)
PyMax(vals) ==
    IF Len(vals) = 0
    THEN [raised |-> TRUE, v |-> 0]
    ELSE [raised |-> FALSE,
          v |-> CHOOSE x \in {vals[i] : i \in 1..Len(vals)} :
                   \A j \in 1..Len(vals) : vals[j] <= x]

(* a / b of Python: raises ZeroDivisionError when b = 0 *)
PyDiv(a, b) ==
    IF b = 0 THEN [raised |-> TRUE, v |-> 0] ELSE [raised |-> FALSE, v |-> a \div b]

(* variant of FindNow: the scan has no `break`, the last matching slot wins *)
FindNow_NoBreak(all_slots, i, now_h, now_quarter) ==
    LET ms == {j \in i..Len(all_slots) : parse_hm(all_slots[j].start) = <<now_h, now_quarter>>}
    IN  IF ms = {} THEN 0 ELSE (CHOOSE j \in ms : \A k \in ms : k <= j) - 1

(* ---- the scan for the current slot from position i on (lines 186-191): *)
(* the 0-based index of the first match, 0 when there is none              *)
RECURSIVE FindNow(_, _, _, _)
FindNow(all_slots, i, now_h, now_quarter) ==
    IF i > Len(all_slots) THEN 0
    ELSE IF parse_hm(all_slots[i].start) = <<now_h, now_quarter>> THEN i - 1
    ELSE FindNow(all_slots, i + 1, now_h, now_quarter)

(* variant of ChartScale: max() and the division are not guarded by `if chart_vals` *)
ChartScale_Unguarded(chart_vals) ==
    LET mx == PyMax(chart_vals)
        dv == PyDiv(CW * 1000, Len(chart_vals))
    IN  [raised    |-> mx.raised \/ dv.raised,
         chart_max |-> mx.v * 11,
         bar_w     |-> dv.v - bar_gap * 1000]

(* ---- chart_max and bar_w (lines 201-203, 218-219) ---- *)
ChartScale(chart_vals) ==
    LET mx == IF Len(chart_vals) > 0 THEN PyMax(chart_vals) ELSE [raised |-> FALSE, v |-> 0]
        dv == IF Len(chart_vals) > 0 THEN PyDiv(CW * 1000, Len(chart_vals))
              ELSE [raised |-> FALSE, v |-> 0]
    IN  [raised    |-> mx.raised \/ dv.raised,
         chart_max |-> IF Len(chart_vals) > 0 THEN mx.v * 11 ELSE 200,
         bar_w     |-> IF Len(chart_vals) > 0 THEN dv.v - bar_gap * 1000 ELSE 1000]

(* ---- the guard of the "now" marker (line 290) ---- *)
NowMarker(now_offset, chart_vals) == 0 <= now_offset /\ now_offset < Len(chart_vals)

(* ---- slot location, window extraction and marker of one draw_dashboard call ---- *)
(* raw_tomorrow: None when the key is missing, else <<list>>; hm: get_local_time_hm() *)
ChartWindow(raw_today, raw_tomorrow, hm) ==
    LET tomorrow    == IF raw_tomorrow = None THEN <<>> ELSE raw_tomorrow[1]
        all_slots   == raw_today \o tomorrow
        now_h       == hm[1]
        now_m       == hm[2]
        now_quarter == (now_m \div 15) * 15
        now_idx     == FindNow(all_slots, 1, now_h, now_quarter)
        start_idx   == IF now_idx - CHART_SLOTS_PAST > 0 THEN now_idx - CHART_SLOTS_PAST ELSE 0
        end_idx     == now_idx + CHART_SLOTS_FUTURE
        chart_data  == PySlice(all_slots, start_idx, end_idx)
        now_offset  == now_idx - start_idx
        chart_vals  == [i \in 1..Len(chart_data) |-> chart_data[i].value]
        scale       == ChartScale(chart_vals)
    IN  [now_h      |-> now_h,
         now_m      |-> now_m,
         now_idx    |-> now_idx,
         chart_data |-> chart_data,
         now_offset |-> now_offset,
         chart_max  |-> scale.chart_max,
         bar_w      |-> scale.bar_w,
         raised     |-> scale.raised,
         marker     |-> ~scale.raised /\ NowMarker(now_offset, chart_vals)]

(* variant of TouchDetection: a touch wakes a dark screen but does not restart a running timer *)
TouchDetection_NoRestart(s, q, t, now) ==
    IF t /\ q /\ ~s.screen_on
    THEN [s EXCEPT !.backlight = TRUE, !.screen_on = TRUE, !.woke_at = <<now>>]
    ELSE s

(* variant of TouchDetection: a quiet touch sets screen_on without calling set_backlight *)
TouchDetection_NoBacklightCall(s, q, t, now) ==
    IF t /\ q
    THEN [s EXCEPT !.screen_on = TRUE, !.woke_at = <<now>>]
    ELSE s

(* ---- main loop, touch detection (lines 359-366) ---- *)
TouchDetection(s, q, t, now) ==
    IF t /\ q
    THEN [s EXCEPT !.backlight = TRUE, !.screen_on = TRUE, !.woke_at = <<now>>]
    ELSE s

(* variant of DecideScreen: the wake timer expires with > instead of >= *)
DecideScreen_StrictExpiry(s, q, now) ==
    IF q
    THEN IF s.screen_on
         THEN IF s.woke_at = None
              THEN [s EXCEPT !.backlight = FALSE, !.screen_on = FALSE]
              ELSE IF now - s.woke_at[1] > WAKE_DURATION
                   THEN [s EXCEPT !.backlight = FALSE, !.screen_on = FALSE, !.woke_at = None]
                   ELSE s
         ELSE s
    ELSE [backlight |-> IF ~s.screen_on THEN TRUE ELSE s.backlight,
          screen_on |-> TRUE,
          woke_at   |-> None]

(* variant of DecideScreen: outside quiet hours the timer is reset only when the screen was off *)
DecideScreen_KeepTimer(s, q, now) ==
    IF q
    THEN IF s.screen_on
         THEN IF s.woke_at = None
              THEN [s EXCEPT !.backlight = FALSE, !.screen_on = FALSE]
              ELSE IF now - s.woke_at[1] >= WAKE_DURATION
                   THEN [s EXCEPT !.backlight = FALSE, !.screen_on = FALSE, !.woke_at = None]
                   ELSE s
         ELSE s
    ELSE [backlight |-> IF ~s.screen_on THEN TRUE ELSE s.backlight,
          screen_on |-> TRUE,
          woke_at   |-> IF ~s.screen_on THEN None ELSE s.woke_at]

(* variant of DecideScreen: a lit screen without a wake timer stays lit in quiet hours *)
DecideScreen_NoneStaysOn(s, q, now) ==
    IF q
    THEN IF s.screen_on
         THEN IF s.woke_at = None
              THEN s
              ELSE IF now - s.woke_at[1] >= WAKE_DURATION
                   THEN [s EXCEPT !.backlight = FALSE, !.screen_on = FALSE, !.woke_at = None]
                   ELSE s
         ELSE s
    ELSE [backlight |-> IF ~s.screen_on THEN TRUE ELSE s.backlight,
          screen_on |-> TRUE,
          woke_at   |-> None]

(* variant of DecideScreen: an expired wake timer is left in place *)
DecideScreen_ExpiryKeepsTimer(s, q, now) ==
    IF q
    THEN IF s.screen_on
         THEN IF s.woke_at = None
              THEN [s EXCEPT !.backlight = FALSE, !.screen_on = FALSE]
              ELSE IF now - s.woke_at[1] >= WAKE_DURATION
                   THEN [s EXCEPT !.backlight = FALSE, !.screen_on = FALSE]
                   ELSE s
         ELSE s
    ELSE [backlight |-> IF ~s.screen_on THEN TRUE ELSE s.backlight,
          screen_on |-> TRUE,
          woke_at   |-> None]

(* ---- main loop, decide whether the screen should be on (lines 368-385) ---- *)
DecideScreen(s, q, now) ==
    IF q
    THEN IF s.screen_on
         THEN IF s.woke_at = None
              THEN [s EXCEPT !.backlight = FALSE, !.screen_on = FALSE]
              ELSE IF now - s.woke_at[1] >= WAKE_DURATION
                   THEN [s EXCEPT !.backlight = FALSE, !.screen_on = FALSE, !.woke_at = None]
                   ELSE s
         ELSE s
    ELSE [backlight |-> IF ~s.screen_on THEN TRUE ELSE s.backlight,
          screen_on |-> TRUE,
          woke_at   |-> None]

(* variant of Backlight: the touch is handled after the decision and without the quiet test *)
Backlight_TouchLast(s, q, t, now) ==
    LET d == DecideScreen(s, q, now)
    IN  IF t
        THEN [d EXCEPT !.backlight = TRUE, !.screen_on = TRUE, !.woke_at = <<now>>]
        ELSE d

(* ---- main loop, backlight state machine of one iteration (lines 359-385) ---- *)
Backlight(s, q, t, now) == DecideScreen(TouchDetection(s, q, t, now), q, now)

(* ---- sleep until the next whole minute (lines 407-410) ---- *)
SleepSecs(t) ==
    LET sleep_secs == 60 - (t % 60)
    IN  IF sleep_secs > 0 THEN sleep_secs ELSE 60

(* variant of FetchBlock: a failed fetch drops the cached data *)
FetchBlock_DropCache(c, now, outcome, r) ==
    IF now - c.last_fetch_time >= REFRESH_SECS
    THEN IF outcome = "raise"
         THEN [cached_data |-> None, last_fetch_time |-> c.last_fetch_time,
               result |-> "raise"]
         ELSE [cached_data |-> <<r>>, last_fetch_time |-> now, result |-> "ok"]
    ELSE [cached_data |-> c.cached_data, last_fetch_time |-> c.last_fetch_time,
          result |-> "none"]

(* variant of FetchBlock: the fetch is due only after more than REFRESH_SECS *)
FetchBlock_StrictDue(c, now, outcome, r) ==
    IF now - c.last_fetch_time > REFRESH_SECS
    THEN IF outcome = "raise"
         THEN [cached_data |-> c.cached_data, last_fetch_time |-> c.last_fetch_time,
               result |-> "raise"]
         ELSE [cached_data |-> <<r>>, last_fetch_time |-> now, result |-> "ok"]
    ELSE [cached_data |-> c.cached_data, last_fetch_time |-> c.last_fetch_time,
          result |-> "none"]

(* variant of FetchBlock: a failed fetch also stamps last_fetch_time *)
FetchBlock_FailureStampsTime(c, now, outcome, r) ==
    IF now - c.last_fetch_time >= REFRESH_SECS
    THEN IF outcome = "raise"
         THEN [cached_data |-> c.cached_data, last_fetch_time |-> now,
               result |-> "raise"]
         ELSE [cached_data |-> <<r>>, last_fetch_time |-> now, result |-> "ok"]
    ELSE [cached_data |-> c.cached_data, last_fetch_time |-> c.last_fetch_time,
          result |-> "none"]

(* ---- main loop, fetch block (lines 387-396) ---- *)
(* c: [cached_data, last_fetch_time]; outcome: "ok" when fetch_nordpool    *)
(* returns r, "raise" when it raises                                       *)
FetchBlock(c, now, outcome, r) ==
    IF now - c.last_fetch_time >= REFRESH_SECS
    THEN IF outcome = "raise"
         THEN [cached_data |-> c.cached_data, last_fetch_time |-> c.last_fetch_time,
               result |-> "raise"]
         ELSE [cached_data |-> <<r>>, last_fetch_time |-> now, result |-> "ok"]
    ELSE [cached_data |-> c.cached_data, last_fetch_time |-> c.last_fetch_time,
          result |-> "none"]

(* variant of RedrawBlock: the redraw does not look at screen_on *)
RedrawBlock_IgnoreBacklight(on, f) ==
    IF f.result = "raise"
    THEN [redraw |-> FALSE, drawn |-> IF on THEN "error" ELSE "none"]
    ELSE IF f.cached_data # None
         THEN [redraw |-> TRUE,
               drawn  |-> IF draw_dashboard(f.cached_data[1]) THEN "dashboard" ELSE "error"]
         ELSE [redraw |-> FALSE, drawn |-> "none"]

(* variant of RedrawBlock: no `continue` after a failed fetch, the cached data is redrawn *)
RedrawBlock_NoContinue(on, f) ==
    IF on /\ f.cached_data # None
    THEN [redraw |-> TRUE,
          drawn  |-> IF draw_dashboard(f.cached_data[1]) THEN "dashboard" ELSE "error"]
    ELSE [redraw |-> FALSE,
          drawn  |-> IF f.result = "raise" /\ on THEN "error" ELSE "none"]

(* ---- main loop, what the iteration draws (lines 392-403) ---- *)
(* on: screen_on after the backlight decision; f: result of FetchBlock     *)
RedrawBlock(on, f) ==
    IF f.result = "raise"
    THEN [redraw |-> FALSE, drawn |-> IF on THEN "error" ELSE "none"]
    ELSE IF on /\ f.cached_data # None
         THEN [redraw |-> TRUE,
               drawn  |-> IF draw_dashboard(f.cached_data[1]) THEN "dashboard" ELSE "error"]
         ELSE [redraw |-> FALSE, drawn |-> "none"]

Init ==
    /\ pc = "boot"
    /\ clock \in BootClocks
    /\ \E c \in Configs :
          /\ QUIET_START = c[1]
          /\ QUIET_END = c[2]
          /\ WAKE_DURATION = c[3]
          /\ TIMEZONE_OFFSET = c[4]
    /\ cached_data = None
    /\ last_fetch_time = -REFRESH_SECS
    /\ screen_on = TRUE
    /\ woke_at = None
    /\ backlight = TRUE
    /\ now_ticks = clock
    /\ quiet = FALSE
    /\ touched = FALSE
    /\ fetch_result = "none"
    /\ response = None
    /\ redraw = FALSE
    /\ drawn = "none"
    /\ prev = None
    /\ boot_time = clock
    /\ touched_at = None
    /\ boot_run = TRUE
    /\ fn_args = None
    /\ fn_result = None

(* ---- startup, connect_wifi() returned False (lines 336-339) ---- *)
StartupWifiFailed ==
    /\ pc = "boot"
    /\ pc' = "exit"
    /\ drawn' = "error"
    /\ UNCHANGED <<clock, config, state, now_ticks, quiet, touched, fetch_result,
                   response, redraw, prev, hist, fn>>

(* variant of Startup: the boot is not treated as a touch-wake *)
Startup_NoBootWake ==
    /\ pc = "boot"
    /\ pc' = "loop"
    /\ drawn' = "error"
    /\ cached_data' = None
    /\ last_fetch_time' = -REFRESH_SECS
    /\ screen_on' = TRUE
    /\ woke_at' = None
    /\ backlight' = TRUE
    /\ boot_time' = clock
    /\ UNCHANGED <<clock, config, now_ticks, quiet, touched, fetch_result,
                   response, redraw, prev, touched_at, boot_run, fn>>

(* ---- startup, connect_wifi() returned True (lines 336-352); sync_ntp   *)
(* succeeding or failing leads to the same loop state                      *)
Startup ==
    /\ pc = "boot"
    /\ pc' = "loop"
    /\ drawn' = "error"
    /\ cached_data' = None
    /\ last_fetch_time' = -REFRESH_SECS
    /\ screen_on' = TRUE
    /\ woke_at' = <<clock>>
    /\ backlight' = TRUE
    /\ boot_time' = clock
    /\ UNCHANGED <<clock, config, now_ticks, quiet, touched, fetch_result,
                   response, redraw, prev, touched_at, boot_run, fn>>

(* ---- one iteration of the main loop (lines 354-410) ---- *)
(* t: touch.state; outcome: "raise" or "ok"; r: what the endpoint answers  *)
Iteration(t, outcome, r) ==
    LET now == clock
        hm  == get_local_time_hm(clock)
        q   == in_quiet_hours(hm[1])
        s0  == [backlight |-> backlight, screen_on |-> screen_on, woke_at |-> woke_at]
        s1  == Backlight(s0, q, t, now)
        f   == FetchBlock([cached_data |-> cached_data, last_fetch_time |-> last_fetch_time],
                          now, outcome, r)
        d   == RedrawBlock(s1.screen_on, f)
    IN  /\ pc = "loop"
        /\ clock < boot_time + MaxMinutes * 60
        /\ now_ticks' = now
        /\ quiet' = q
        /\ touched' = t
        /\ prev' = <<[screen_on |-> screen_on, woke_at |-> woke_at, backlight |-> backlight,
                      last_fetch_time |-> last_fetch_time]>>
        /\ backlight' = s1.backlight
        /\ screen_on' = s1.screen_on
        /\ woke_at' = s1.woke_at
        /\ cached_data' = f.cached_data
        /\ last_fetch_time' = f.last_fetch_time
        /\ fetch_result' = f.result
        /\ response' = IF f.result = "ok" THEN <<r>> ELSE None
        /\ redraw' = d.redraw
        /\ drawn' = d.drawn
        /\ clock' = IF f.result = "raise" THEN now + COOLDOWN_SECS ELSE now + SleepSecs(now)
        /\ touched_at' = IF ~q THEN None ELSE IF t THEN <<now>> ELSE touched_at
        /\ boot_run' = (boot_run /\ q /\ ~t)
        /\ pc' = pc
        /\ UNCHANGED <<config, boot_time, fn>>

(* the iteration finds the fetch not due *)
TickNoFetch ==
    /\ clock - last_fetch_time < REFRESH_SECS
    /\ \E t \in BOOLEAN : Iteration(t, "ok", CHOOSE r \in Responses : TRUE)

(* the fetch is due and fetch_nordpool returns *)
TickFetchOk ==
    /\ clock - last_fetch_time >= REFRESH_SECS
    /\ \E t \in BOOLEAN, r \in Responses : Iteration(t, "ok", r)

(* the fetch is due and fetch_nordpool raises; a failure is explored only   *)
(* when the iteration that follows its cooldown is explored too            *)
TickFetchFailed ==
    /\ clock - last_fetch_time >= REFRESH_SECS
    /\ clock + COOLDOWN_SECS < boot_time + MaxMinutes * 60
    /\ \E t \in BOOLEAN : Iteration(t, "raise", CHOOSE r \in Responses : TRUE)

Tick == TickNoFetch \/ TickFetchOk \/ TickFetchFailed

Next == StartupWifiFailed \/ Startup \/ TickNoFetch \/ TickFetchOk \/ TickFetchFailed

Spec == Init /\ [][Next]_vars

(***************************************************************************)
(* Functions evaluated on their own: the inputs are drawn in the initial   *)
(* state and by the evaluating action, which is taken once; the result is  *)
(* kept in fn_result.                                                      *)
(***************************************************************************)

(* the main-loop variables while a function is evaluated on its own *)
FnRest ==
    /\ pc = "fn"
    /\ cached_data = None
    /\ last_fetch_time = -REFRESH_SECS
    /\ screen_on = TRUE
    /\ woke_at = None
    /\ backlight = TRUE
    /\ now_ticks = 0
    /\ quiet = FALSE
    /\ touched = FALSE
    /\ fetch_result = "none"
    /\ response = None
    /\ redraw = FALSE
    /\ drawn = "none"
    /\ prev = None
    /\ boot_time = 0
    /\ touched_at = None
    /\ boot_run = TRUE
    /\ fn_args = None
    /\ fn_result = None

(* ---- in_quiet_hours for every QUIET_START, QUIET_END and hour ---- *)
QuietInit ==
    /\ FnRest
    /\ clock = 0
    /\ QUIET_START \in 0..23
    /\ QUIET_END \in 0..23
    /\ WAKE_DURATION = 300
    /\ TIMEZONE_OFFSET = 4

QuietEval ==
    /\ pc = "fn"
    /\ fn_args = None
    /\ \E h \in 0..23 :
          /\ fn_args' = <<"in_quiet_hours", h>>
          /\ fn_result' = <<in_quiet_hours(h)>>
    /\ UNCHANGED <<pc, clock, config, state, obs, hist>>

QuietSpec == QuietInit /\ [][QuietEval]_vars

(* ---- get_local_time_hm for every UTC time of day and offset ---- *)
(* offsets in half hours, UTC-12:00 .. UTC+14:00 *)
TzOffsets == -24..28

TimeInit ==
    /\ FnRest
    /\ clock = 0
    /\ QUIET_START = 23
    /\ QUIET_END = 7
    /\ WAKE_DURATION = 300
    /\ TIMEZONE_OFFSET \in TzOffsets

TimeEval ==
    /\ pc = "fn"
    /\ fn_args = None
    /\ \E h \in 0..23, m \in 0..59, sec \in {0, 59} :
          /\ clock' = 86400 + h * 3600 + m * 60 + sec
          /\ fn_args' = <<"get_local_time_hm", h, m>>
          /\ fn_result' = <<get_local_time_hm(clock')>>
    /\ UNCHANGED <<pc, config, state, obs, hist>>

TimeSpec == TimeInit /\ [][TimeEval]_vars

(* ---- the chart window of draw_dashboard for lists of quarter-hour slots ---- *)
MaxSlots == 96          \* longest raw_today / raw_tomorrow list

(* minutes of the hour at which the dashboard is drawn *)
NowMinutes == {0, 7, 29, 45}

(* the first n quarter-hour slots of a day, from 00:00 on *)
DaySlots(day, n) ==
    [k \in 1..n |-> [start |-> <<day, (k - 1) \div 4, ((k - 1) % 4) * 15>>,
                     value |-> (k * 3) % 7]]

(* the lists named by the arguments <<"draw_dashboard", n, None or <<n2>>>> *)
RawToday(args) == DaySlots(1, args[2])
RawTomorrow(args) == IF args[3] = None THEN None ELSE <<DaySlots(2, args[3][1])>>

WindowInit ==
    /\ FnRest
    /\ clock = 0
    /\ QUIET_START = 23
    /\ QUIET_END = 7
    /\ WAKE_DURATION = 300
    /\ TIMEZONE_OFFSET = 4

WindowEval ==
    /\ pc = "fn"
    /\ fn_args = None
    /\ \E n \in 0..MaxSlots, n2 \in {None, <<0>>, <<MaxSlots>>}, h \in 0..23, m \in NowMinutes :
          /\ clock' = 86400 + h * 3600 + m * 60
          /\ fn_args' = <<"draw_dashboard", n, n2>>
          /\ fn_result' = <<ChartWindow(RawToday(fn_args'), RawTomorrow(fn_args'),
                                        get_local_time_hm(clock'))>>
    /\ UNCHANGED <<pc, config, state, obs, hist>>

WindowSpec == WindowInit /\ [][WindowEval]_vars

(* the loop keeps iterating, and the endpoint answers if it is asked for long enough *)
LiveSpec == Init /\ [][Next]_vars /\ WF_vars(Tick) /\ WF_vars(Startup) /\ WF_vars(TickFetchOk)

(* at least one iteration of the loop has completed *)
Ticked == pc = "loop" /\ prev # None

(* the time at which the running wake timer expires: None or <<woke_at + WAKE_DURATION>> *)
WakeDeadline == IF woke_at = None THEN None ELSE <<woke_at[1] + WAKE_DURATION>>

(***************************************************************************)
(* Claims                                                                  *)
(***************************************************************************)

(* C1: after a touch sensed at time t in quiet hours, as long as the hour  *)
(* stays quiet and no further touch is sensed, the backlight is ON after   *)
(* every tick with time < t + WAKE_DURATION and OFF after every tick with  *)
(* time >= t + WAKE_DURATION.                                              *)
C1_TouchWakeWindow ==
    (Ticked /\ touched_at # None)
        => (screen_on <=> now_ticks < touched_at[1] + WAKE_DURATION)

(* a touch-wake that has just expired: the tick found the screen lit and turned it off *)
C1_Witness ==
    /\ Ticked /\ touched_at # None /\ WAKE_DURATION > 0
    /\ ~touched /\ prev[1].screen_on /\ ~screen_on
    /\ now_ticks >= touched_at[1] + WAKE_DURATION

(* C2 as stated: after every tick with touch sensed in quiet hours, for    *)
(* every WAKE_DURATION >= 0, the backlight is ON and the wake deadline is  *)
(* now + WAKE_DURATION.                                                    *)
C2_Original ==
    (Ticked /\ touched /\ quiet /\ WAKE_DURATION >= 0)
        => (screen_on /\ WakeDeadline = <<now_ticks + WAKE_DURATION>>)

(* C2 amended: the same for every WAKE_DURATION > 0. *)
C2_TouchRestartsTimer ==
    (Ticked /\ touched /\ quiet /\ WAKE_DURATION > 0)
        => (screen_on /\ WakeDeadline = <<now_ticks + WAKE_DURATION>>)

(* a quiet touch on a lit screen whose timer was already running: the timer is restarted *)
C2_Witness ==
    /\ Ticked /\ touched /\ quiet /\ WAKE_DURATION > 0
    /\ prev[1].screen_on /\ prev[1].woke_at # None /\ prev[1].woke_at # <<now_ticks>>
    /\ screen_on /\ woke_at = <<now_ticks>>

(* C3: after every tick outside quiet hours the backlight is ON and the    *)
(* wake timer is absent, whatever the state before, the touch and the      *)
(* outcome of the fetch.                                                   *)
C3_NonQuietAlwaysOn ==
    (Ticked /\ ~quiet) => (screen_on /\ backlight /\ woke_at = None)

(* the quiet period ends on a dark screen, on a tick whose fetch fails *)
C3_Witness ==
    /\ Ticked /\ ~quiet /\ ~prev[1].screen_on /\ fetch_result = "raise"
    /\ screen_on /\ woke_at = None

(* C4: a quiet tick that starts with the backlight ON and no wake timer    *)
(* and senses no touch leaves the backlight OFF.                           *)
C4_QuietNoTimerTurnsOff ==
    (Ticked /\ quiet /\ ~touched /\ prev[1].screen_on /\ prev[1].woke_at = None)
        => ~screen_on

(* the first quiet tick after non-quiet ticks, untouched *)
C4_Witness ==
    /\ Ticked /\ quiet /\ ~touched /\ prev[1].screen_on /\ prev[1].woke_at = None
    /\ ~screen_on /\ now_ticks > boot_time

(* C5: the loop is entered ON with the wake timer started at boot time;    *)
(* while every tick since boot was quiet and untouched the backlight is ON *)
(* exactly while now - boot < WAKE_DURATION; a first tick outside quiet    *)
(* hours clears the boot timer.                                            *)
C5_BootAsTouched ==
    /\ (pc = "loop" /\ prev = None) => (screen_on /\ backlight /\ woke_at = <<boot_time>>)
    /\ (Ticked /\ boot_run) => (screen_on <=> now_ticks - boot_time < WAKE_DURATION)
    /\ (Ticked /\ now_ticks = boot_time /\ ~quiet) => woke_at = None

(* booted in quiet hours, never touched: the boot wake window has just expired *)
C5_Witness ==
    /\ Ticked /\ boot_run /\ WAKE_DURATION > 0
    /\ prev[1].screen_on /\ ~screen_on
    /\ now_ticks - boot_time >= WAKE_DURATION

(* C6: an iteration whose fetch raises leaves cached_data and              *)
(* last_fetch_time as they were.                                           *)
C6_FailedFetchKeepsCache ==
    [][fetch_result' = "raise"
         => (cached_data' = cached_data /\ last_fetch_time' = last_fetch_time)]_vars

(* the third failure in a row after a successful fetch: the cache is still there *)
C6_Witness ==
    /\ Ticked /\ fetch_result = "raise" /\ cached_data # None
    /\ now_ticks - last_fetch_time >= REFRESH_SECS + 2 * COOLDOWN_SECS

(* C7 as stated: with good data cached, a response that parses but lacks   *)
(* a required field leaves cached_data and last_fetch_time as they were.   *)
C7_MissingFieldIsFailure ==
    [][(clock' # clock /\ response' # None
          /\ cached_data # None /\ draw_dashboard(cached_data[1])
          /\ ~(RequiredFields \subseteq response'[1].fields))
         => (cached_data' = cached_data /\ last_fetch_time' = last_fetch_time)]_vars

(* C8: draw_dashboard is invoked in an iteration only if, after the        *)
(* backlight decision, screen_on holds and cached data is present;         *)
(* otherwise nothing is redrawn and the loop goes on.                      *)
C8_RedrawGated ==
    Ticked => /\ redraw => (screen_on /\ cached_data # None)
              /\ (~screen_on \/ cached_data = None) => (~redraw /\ drawn # "dashboard")

(* data was fetched on a tick that left the screen dark: no redraw *)
C8_Witness ==
    /\ Ticked /\ ~screen_on /\ fetch_result = "ok" /\ cached_data # None
    /\ draw_dashboard(cached_data[1]) /\ ~redraw /\ drawn = "none"

(* C9: an iteration attempts the fetch exactly when                        *)
(* now - last_fetch_time >= REFRESH_SECS; a fetch that returns sets        *)
(* last_fetch_time to now; the first iteration always attempts; two        *)
(* fetches that returned are at least REFRESH_SECS apart.                  *)
C9_FetchSchedule ==
    [][clock' # clock =>
         /\ (fetch_result' # "none") <=> (now_ticks' - last_fetch_time >= REFRESH_SECS)
         /\ fetch_result' = "ok" => last_fetch_time' = now_ticks'
         /\ fetch_result' # "ok" => last_fetch_time' = last_fetch_time
         /\ prev = None => fetch_result' # "none"
         /\ (fetch_result' = "ok" /\ last_fetch_time # -REFRESH_SECS)
               => now_ticks' - last_fetch_time >= REFRESH_SECS]_vars

(* a second fetch returns, exactly REFRESH_SECS after the first *)
C9_Witness ==
    /\ Ticked /\ fetch_result = "ok" /\ last_fetch_time = now_ticks
    /\ prev[1].last_fetch_time >= 0
    /\ now_ticks - prev[1].last_fetch_time = REFRESH_SECS

(* C10: after an iteration whose fetch raised, the next iteration attempts *)
(* the fetch again; if the endpoint answers, the cached data is eventually *)
(* the new response and last_fetch_time advances to that iteration.        *)
C10_RetryUntilSuccess ==
    /\ [][(fetch_result = "raise" /\ clock' # clock) => fetch_result' # "none"]_vars
    /\ (fetch_result = "raise")
          ~> (fetch_result = "ok" /\ cached_data = response /\ last_fetch_time = now_ticks)

(* a fetch returns right after one that raised, replacing older cached data *)
C10_Witness ==
    /\ Ticked /\ fetch_result = "ok" /\ cached_data = response
    /\ prev[1].last_fetch_time >= 0
    /\ now_ticks - prev[1].last_fetch_time > REFRESH_SECS
    /\ now_ticks % 60 # 0

(* C11 as stated: whatever the startup outcome, the loop is entered and    *)
(* never left, so the script never reaches its end.                        *)
C11_LoopNeverEnds == pc # "exit"

(* C17: after every tick, a dark screen has no wake timer and the hour of  *)
(* that tick was quiet; a wake timer exists only while the screen is on.   *)
C17_OffMeansQuietNoTimer ==
    Ticked => /\ ~screen_on => (woke_at = None /\ quiet)
              /\ woke_at # None => screen_on

(* a wake timer has just expired: the tick turned the screen off and removed the timer *)
C17_Witness ==
    /\ Ticked /\ quiet /\ ~screen_on /\ woke_at = None
    /\ prev[1].screen_on /\ prev[1].woke_at # None /\ WAKE_DURATION > 0

(* C18: after startup and after every tick the last value passed to        *)
(* set_backlight is true exactly when screen_on is true.                   *)
C18_BacklightFollowsState ==
    pc = "loop" => (backlight <=> screen_on)

(* a quiet touch has just lit a dark screen *)
C18_Witness ==
    /\ Ticked /\ quiet /\ touched /\ ~prev[1].screen_on /\ ~prev[1].backlight
    /\ screen_on /\ backlight

(* C19: an iteration whose fetch raises does not redraw the dashboard,     *)
(* draws the error message exactly when the screen is on, and is followed  *)
(* by the next iteration COOLDOWN_SECS later.                              *)
C19_FailedFetchSkipsRedraw ==
    (Ticked /\ fetch_result = "raise")
        => /\ ~redraw
           /\ drawn = (IF screen_on THEN "error" ELSE "none")
           /\ clock = now_ticks + COOLDOWN_SECS

(* the fetch raised with the screen on and good data cached: the error replaces the dashboard *)
C19_Witness ==
    /\ Ticked /\ fetch_result = "raise" /\ screen_on
    /\ cached_data # None /\ draw_dashboard(cached_data[1])
    /\ ~redraw /\ drawn = "error"

(* C20: on a tick outside quiet hours the backlight state and the wake     *)
(* timer are the same with and without the touch, and no wake timer is     *)
(* started.                                                                *)
C20_NonQuietTouchNoEffect ==
    (Ticked /\ ~quiet)
        => LET s  == [backlight |-> prev[1].backlight, screen_on |-> prev[1].screen_on,
                      woke_at |-> prev[1].woke_at]
               a  == [backlight |-> backlight, screen_on |-> screen_on, woke_at |-> woke_at]
           IN  /\ Backlight(s, FALSE, TRUE, now_ticks) = Backlight(s, FALSE, FALSE, now_ticks)
               /\ a = Backlight(s, FALSE, ~touched, now_ticks)
               /\ woke_at = None

(* a touch on the last tick before quiet hours begin *)
C20_Witness ==
    /\ Ticked /\ ~quiet /\ touched /\ screen_on /\ woke_at = None
    /\ in_quiet_hours(get_local_time_hm(clock)[1])

(* C15: in_quiet_hours(hour) is false when start = end, start <= hour <    *)
(* end when start < end, and hour >= start or hour < end when start > end: *)
(* the quiet hours are those met walking from the start hour up to, not    *)
(* including, the end hour, across midnight if needed.                     *)
C15_QuietHours ==
    (pc = "fn" /\ fn_args # None /\ fn_args[1] = "in_quiet_hours")
        => LET h     == fn_args[2]
               start == QUIET_START
               end   == QUIET_END
               r     == fn_result[1]
           IN  /\ start = end => r = FALSE
               /\ start < end => (r <=> (start <= h /\ h < end))
               /\ start > end => (r <=> (h >= start \/ h < end))
               /\ r <=> (h \in { (start + k) % 24 : k \in 0..(((end - start) % 24) - 1) })
               /\ (start = 23 /\ end = 7 /\ h = 23) => r
               /\ (start = 23 /\ end = 7 /\ h \in {7, 12}) => ~r

(* an hour after midnight inside a window that wraps midnight *)
C15_Witness ==
    /\ pc = "fn" /\ fn_args = <<"in_quiet_hours", 3>>
    /\ QUIET_START = 23 /\ QUIET_END = 7 /\ fn_result = <<TRUE>>

(* C16: get_local_time_hm returns an hour in 0..23 and a minute in 0..59   *)
(* with hour*60 + minute congruent to utcHour*60 + utcMinute + offset*60   *)
(* modulo 1440, for negative offsets too.                                  *)
C16_LocalTime ==
    (pc = "fn" /\ fn_args # None /\ fn_args[1] = "get_local_time_hm")
        => LET total == fn_args[2] * 60 + fn_args[3] + TIMEZONE_OFFSET * 30
               r     == fn_result[1]
           IN  /\ r[1] \in 0..23
               /\ r[2] \in 0..59
               /\ \E k \in -2..2 : r[1] * 60 + r[2] = total + 1440 * k

(* 00:10 UTC at UTC-00:30 is 23:40 of the day before *)
C16_Witness ==
    /\ pc = "fn" /\ fn_args = <<"get_local_time_hm", 0, 10>>
    /\ TIMEZONE_OFFSET = -1 /\ fn_result = << <<23, 40>> >>

(* a chart window has been computed *)
WindowDone == pc = "fn" /\ fn_args # None /\ fn_args[1] = "draw_dashboard"

(* the series handed to that computation: today's slots followed by tomorrow's *)
WindowSeries ==
    DaySlots(1, fn_args[2]) \o (IF fn_args[3] = None THEN <<>> ELSE DaySlots(2, fn_args[3][1]))

(* the 0-based indexes of the slots of the series that start at (nowHour, nowQuarter) *)
WindowMatches(ser, r) ==
    {i \in 0..(Len(ser) - 1) :
        /\ ser[i + 1].start[2] = r.now_h
        /\ ser[i + 1].start[3] = (r.now_m \div 15) * 15}

(* C12: when the series has a slot at (nowHour, nowQuarter), with i the    *)
(* index of the first one: the window is series[max(0, i-past) : i+future],*)
(* nowOffset = min(i, past), the window's slot at nowOffset is that slot,  *)
(* the window is at most past+future long, and exactly that long with      *)
(* nowOffset = past when i >= past and i + future <= len(series).          *)
C12_WindowAroundNow ==
    WindowDone
        => LET r    == fn_result[1]
               ser  == WindowSeries
               ms   == WindowMatches(ser, r)
               past == CHART_SLOTS_PAST
               fut  == CHART_SLOTS_FUTURE
               i    == CHOOSE x \in ms : \A y \in ms : x <= y
               lo   == IF i - past > 0 THEN i - past ELSE 0
               hi   == IF i + fut < Len(ser) THEN i + fut ELSE Len(ser)
           IN  ms # {} =>
               /\ r.chart_data = [k \in 1..(hi - lo) |-> ser[lo + k]]
               /\ r.now_offset = (IF i < past THEN i ELSE past)
               /\ r.now_offset < Len(r.chart_data)
               /\ r.chart_data[r.now_offset + 1] = ser[i + 1]
               /\ Len(r.chart_data) <= past + fut
               /\ (i >= past /\ i + fut <= Len(ser))
                     => (Len(r.chart_data) = past + fut /\ r.now_offset = past)
               /\ (fn_args[2] = 96 /\ r.now_h = 14 /\ r.now_m = 7)
                     => /\ r.chart_data[r.now_offset + 1].start = <<1, 14, 0>>
                        /\ r.now_offset = 4
                        /\ Len(r.chart_data) = 24

(* 96 slots of today and 96 of tomorrow at 14:07: today's 14:00 slot, offset 4, 24 bars *)
C12_Witness ==
    /\ WindowDone /\ fn_args = <<"draw_dashboard", 96, <<96>>>>
    /\ fn_result[1].now_h = 14 /\ fn_result[1].now_m = 7
    /\ fn_result[1].now_idx = 56 /\ fn_result[1].now_offset = 4
    /\ Len(fn_result[1].chart_data) = 24

(* C13 as stated: when no slot of the series matches (nowHour, nowQuarter) *)
(* the index falls back to 0, the window is the first future-count slots   *)
(* and no now-marker is drawn.                                             *)
C13_MissSuppressesMarker ==
    WindowDone
        => LET r   == fn_result[1]
               ser == WindowSeries
               hi  == IF CHART_SLOTS_FUTURE < Len(ser) THEN CHART_SLOTS_FUTURE ELSE Len(ser)
           IN  WindowMatches(ser, r) = {} =>
               /\ r.now_idx = 0
               /\ r.chart_data = [k \in 1..hi |-> ser[k]]
               /\ ~r.marker

(* C14: for an empty series (raw_today empty, raw_tomorrow empty or        *)
(* missing) the window is empty, no now-marker is drawn and nothing is     *)
(* raised, at every current time.                                          *)
C14_EmptySeries ==
    (WindowDone /\ fn_args[2] = 0 /\ fn_args[3] \in {None, <<0>>})
        => /\ fn_result[1].chart_data = <<>>
           /\ ~fn_result[1].marker
           /\ ~fn_result[1].raised

(* raw_today empty and raw_tomorrow missing, drawn at 14:07 *)
C14_Witness ==
    /\ WindowDone /\ fn_args = <<"draw_dashboard", 0, None>>
    /\ fn_result[1].now_h = 14 /\ fn_result[1].now_m = 7
    /\ fn_result[1].chart_data = <<>> /\ fn_result[1].chart_max = 200
    /\ ~fn_result[1].raised

====
